---- MODULE Spec2Model ----
(***************************************************************************)
(* Model of sentinel_x/core.py: ThreatLevel, SecurityEvent and the         *)
(* SecurityMonitor (bounded event store, queries, start/stop lifecycle).   *)
(*                                                                         *)
(* Three views of the same object are specified over one set of variables: *)
(*   Spec      one caller using the store API, each call one atomic step   *)
(*   ConcSpec  several threads running the store API statement by          *)
(*             statement around self._lock                                 *)
(*   LifeSpec  one caller using start_monitoring / stop_monitoring and the *)
(*             threads running _monitor_loop  (LiveSpec adds fairness)     *)
(***************************************************************************)
EXTENDS Integers, Sequences, FiniteSets, TLC

VARIABLES
    max_events,      \* self.max_events
    events,          \* self.events, oldest first
    monitoring,      \* self._monitoring
    stop_event,      \* self._stop_event (TRUE = set)
    monitor_thread,  \* self._monitor_thread: 0 = None, otherwise a task id
    lock,            \* holder of self._lock: NoThread or a thread
    ret,             \* Spec: the call the single caller made last, and its outcome
    pc,              \* ConcSpec: the statement each thread is at
    loc,             \* ConcSpec: each thread's arguments, locals and last return value
    task,            \* the position of each thread running _monitor_loop
    caller,          \* LifeSpec: the foreground caller's position in start/stop
    logged,          \* whether _monitor_loop has logged an error
    inserted,        \* history: the events passed to log_event before any clear_events
    cleared,         \* history: clear_events has been called
    ncalls,          \* history: number of log_event / clear_events calls started
    serial,          \* history: the store obtained by applying the writes one at a time
    window           \* history: per thread, the committed stores since its call began

vars == <<max_events, events, monitoring, stop_event, monitor_thread, lock, ret,
          pc, loc, task, caller, logged, inserted, cleared, ncalls, serial, window>>

storeVars == <<max_events, events, inserted, cleared, ncalls, serial>>
lifeVars  == <<monitoring, stop_event, monitor_thread, task, caller, logged>>
concVars  == <<lock, pc, loc, window>>

\* ------------------------------------------------------------------ bounds
MaxCap   == 2   \* max_events ranges over 0..MaxCap
MaxCalls == 3   \* log_event / clear_events calls in one behaviour
MaxTasks == 2   \* threads start_monitoring may create in one behaviour

\* ------------------------------------------------------------------ Optional[...]
None    == [some |-> FALSE]
Some(v) == [some |-> TRUE, val |-> v]

\* ------------------------------------------------------------------ ThreatLevel
ThreatLevel == {"CRITICAL", "HIGH", "MEDIUM", "LOW", "INFO"}

severity_order_swapped ==
    [l \in ThreatLevel |->
        CASE l = "CRITICAL" -> 5 [] l = "HIGH" -> 4 [] l = "MEDIUM" -> 2
          [] l = "LOW" -> 3 [] l = "INFO" -> 1]
severity_order ==
    [l \in ThreatLevel |->
        CASE l = "CRITICAL" -> 5
          [] l = "HIGH"     -> 4
          [] l = "MEDIUM"   -> 3
          [] l = "LOW"      -> 2
          [] l = "INFO"     -> 1]

Lt(a, b) == severity_order[a] < severity_order[b]

Le(a, b) == a = b \/ Lt(a, b)

GtStrictlyLess(a, b) == ~Lt(a, b)
Gt(a, b) == ~Le(a, b)

GeNotLe(a, b) == ~Le(a, b)
Ge(a, b) == ~Lt(a, b)

\* ------------------------------------------------------------------ str
\* A str is a sequence of characters; the alphabet has letters in both cases
\* and caseless characters.
UpperToLower == [c \in {"A", "B", "X", "Y"} |->
                    CASE c = "A" -> "a" [] c = "B" -> "b"
                      [] c = "X" -> "x" [] c = "Y" -> "y"]

LowerChar(c) == IF c \in DOMAIN UpperToLower THEN UpperToLower[c] ELSE c

Lower(s) == [i \in 1..Len(s) |-> LowerChar(s[i])]

\* ------------------------------------------------------------------ SecurityEvent
SecurityEvent(id, ts, level, type, src) ==
    [class |-> "SecurityEvent",
     event_id |-> id, timestamp |-> ts, threat_level |-> level,
     event_type |-> type, source |-> src, description |-> <<"d">>]

\* isinstance(event, SecurityEvent)
IsSecurityEventAny(x) == TRUE
IsSecurityEvent(x) == x.class = "SecurityEvent"

\* `not self.<field>` for a str field: true of the empty string only
Falsy(x) == x = <<>>

\* raise ValueError("<field> cannot be empty")
ValueError(fld) == [raised |-> "ValueError", message |-> <<fld, "cannot be empty">>]

\* SecurityEvent.__post_init__: the exception the construction of e ends with
post_init_source_first(e) ==
    IF Falsy(e.source) THEN ValueError("source")
    ELSE IF Falsy(e.event_id) THEN ValueError("event_id")
    ELSE IF Falsy(e.event_type) THEN ValueError("event_type")
    ELSE IF Falsy(e.description) THEN ValueError("description")
    ELSE [raised |-> "none"]
post_init(e) ==
    IF Falsy(e.event_id) THEN ValueError("event_id")
    ELSE IF Falsy(e.event_type) THEN ValueError("event_type")
    ELSE IF Falsy(e.source) THEN ValueError("source")
    ELSE IF Falsy(e.description) THEN ValueError("description")
    ELSE [raised |-> "none"]

\* The events callers log. Timestamps are 1..3.
EventPool ==
    { SecurityEvent(<<"e", "1">>, 1, "INFO",     <<"a", "b">>, <<"x">>),
      SecurityEvent(<<"e", "2">>, 2, "HIGH",     <<"A", "B">>, <<"X">>),
      SecurityEvent(<<"e", "3">>, 3, "CRITICAL", <<"a", "b">>, <<"y">>),
      SecurityEvent(<<"e", "4">>, 2, "LOW",      <<"b", "a">>, <<"x">>) }

\* Values that are not SecurityEvent objects, which callers may pass to
\* log_event by mistake.
NonEventPool == {[class |-> "dict"], [class |-> "NoneType"]}

\* The arguments callers pass to get_events.
FilterPool ==
    [threat_level : {None, Some("HIGH"), Some("LOW")},
     event_type   : {None, Some(<<"a", "B">>)},
     source       : {None, Some(<<"X">>)},
     start_time   : {None, Some(2)},
     end_time     : {None, Some(2)}]

NoFilter == [threat_level |-> None, event_type |-> None, source |-> None,
             start_time |-> None, end_time |-> None]

\* The arguments callers pass to clear_events.
ClearPool == {None} \cup {Some(l) : l \in ThreatLevel}

\* ------------------------------------------------------------------ log_event
\* len(self.events) >= self.max_events
AtCapacityOffByOne(s, m) == Len(s) > m
AtCapacity(s, m) == Len(s) >= m

\* self.events.pop(0) on a non-empty list
PopLast(s) == SubSeq(s, 1, Len(s) - 1)
Pop0(s) == Tail(s)

\* The body of log_event: the list it leaves and the exception it ends with
\* ("none" when it returns).
log_event(s, m, e) ==
    IF ~IsSecurityEvent(e)
    THEN [events |-> s, raised |-> "TypeError"]
    ELSE IF AtCapacity(s, m)
    THEN IF s = <<>>
         THEN [events |-> s, raised |-> "IndexError"]      \* [].pop(0)
         ELSE [events |-> Append(Pop0(s), e), raised |-> "none"]
    ELSE [events |-> Append(s, e), raised |-> "none"]

\* ------------------------------------------------------------------ clear_events
\* The body of clear_events: the list it leaves and the count it returns.
clear_events(s, th) ==
    IF ~th.some
    THEN [events |-> <<>>, value |-> Len(s)]
    ELSE LET kept == SelectSeq(s, LAMBDA e : Gt(e.threat_level, th.val))
         IN  [events |-> kept, value |-> Len(s) - Len(kept)]

\* ------------------------------------------------------------------ get_events
\* The five filter passes of get_events over the copy `s`.
get_events(s, f) ==
    LET p1 == IF f.threat_level.some
              THEN SelectSeq(s, LAMBDA e : Ge(e.threat_level, f.threat_level.val))
              ELSE s
        p2 == IF f.event_type.some
              THEN SelectSeq(p1, LAMBDA e : Lower(e.event_type) = Lower(f.event_type.val))
              ELSE p1
        p3 == IF f.source.some
              THEN SelectSeq(p2, LAMBDA e : Lower(e.source) = Lower(f.source.val))
              ELSE p2
        p4 == IF f.start_time.some
              THEN SelectSeq(p3, LAMBDA e : e.timestamp >= f.start_time.val)
              ELSE p3
        p5 == IF f.end_time.some
              THEN SelectSeq(p4, LAMBDA e : e.timestamp <= f.end_time.val)
              ELSE p4
    IN  p5

\* ------------------------------------------------------------------ summaries
\* e.threat_level in (ThreatLevel.CRITICAL, ThreatLevel.HIGH)
IsCriticalOnly(e) == e.threat_level = "CRITICAL"
IsCritical(e) == e.threat_level \in {"CRITICAL", "HIGH"}

\* The list comprehension of get_critical_events over the live list `s`.
get_critical_events(s) == SelectSeq(s, IsCritical)

\* _calculate_threat_summary over the live list `s`: a count per level, zero-filled.
calculate_threat_summary_sparse(s) ==
    [l \in {s[i].threat_level : i \in 1..Len(s)} |->
        Cardinality({i \in 1..Len(s) : s[i].threat_level = l})]
calculate_threat_summary(s) ==
    [l \in ThreatLevel |-> Cardinality({i \in 1..Len(s) : s[i].threat_level = l})]

\* datetime.isoformat(): the timestamp as text
isoformat(ts) == <<"T", ts>>

\* SecurityEvent.to_dict
to_dict(e) ==
    [event_id |-> e.event_id, timestamp |-> isoformat(e.timestamp),
     threat_level |-> e.threat_level, event_type |-> e.event_type,
     source |-> e.source, description |-> e.description]

\* The dict counting loop of get_event_summary: the value of the attribute
\* `key` -> number of events that have it.
CountBy(s, key) ==
    [k \in {s[i][key] : i \in 1..Len(s)} |->
        Cardinality({i \in 1..Len(s) : s[i][key] = k})]

\* events_copy[-1] on a non-empty list
Oldest(s) == s[1]
Latest(s) == s[Len(s)]

\* The body of get_event_summary after the copy `s` was taken.
get_event_summary(s) ==
    IF s = <<>>
    THEN [total_events |-> 0, events_by_type |-> <<>>, events_by_source |-> <<>>,
          critical_events |-> 0, latest_event |-> None]
    ELSE [total_events |-> Len(s),
          events_by_type |-> CountBy(s, "event_type"),
          events_by_source |-> CountBy(s, "source"),
          critical_events |-> Cardinality({i \in 1..Len(s) : IsCritical(s[i])}),
          latest_event |-> Some(to_dict(Latest(s)))]

\* ------------------------------------------------------------------ get_status
\* Numbers that need not be whole are fractions in lowest terms.
RECURSIVE Gcd(_, _)
Gcd(a, b) == IF b = 0 THEN a ELSE Gcd(b, a % b)

Frac(n, d) == LET g == Gcd(n, d) IN [num |-> n \div g, den |-> d \div g]

\* a / b, for b # 0
TrueDiv(a, b) == Frac(a, b)

\* q * k
Times(q, k) == Frac(q.num * k, q.den)

\* ... if self.max_events > 0 else 0
HasCapacityOrZero(m) == m >= 0
HasCapacity(m) == m > 0

\* The body of get_status, given the event_count and threat_summary read
\* under the lock: the exception it ends with and the dict it returns (without
\* the name and the timestamp of the call).
get_status(event_count, threat_summary, m, active) ==
    IF HasCapacity(m) /\ m = 0    \* the division is evaluated with divisor 0
    THEN [raised |-> "ZeroDivisionError"]
    ELSE [raised |-> "none",
          value |-> [monitoring_active |-> active,
                     total_events |-> event_count,
                     max_capacity |-> m,
                     capacity_usage_percent |->
                         IF HasCapacity(m)
                         THEN Times(TrueDiv(event_count, m), 100)
                         ELSE Frac(0, 1),
                     threat_summary |-> threat_summary]]

\* ------------------------------------------------------------------ threads
NoThread == "none"
Threads  == {"t1", "t2"}
TaskIds  == 1..MaxTasks

\* ------------------------------------------------------------------ __init__
Init ==
    /\ max_events \in 0..MaxCap
    /\ events = <<>>
    /\ monitoring = FALSE
    /\ stop_event = FALSE
    /\ monitor_thread = 0
    /\ lock = NoThread
    /\ ret = [op |-> "init"]
    /\ pc = [t \in Threads |-> "idle"]
    /\ loc = [t \in Threads |-> [op |-> "init"]]
    /\ task = [i \in TaskIds |-> "unborn"]
    /\ caller = "idle"
    /\ logged = FALSE
    /\ inserted = <<>>
    /\ cleared = FALSE
    /\ ncalls = 0
    /\ serial = <<>>
    /\ window = [t \in Threads |-> {}]

\* ------------------------------------------------------------------ Spec: one caller
LogEvent(e) ==
    /\ ncalls < MaxCalls
    /\ LET r == log_event(events, max_events, e)
       IN  /\ events' = r.events
           /\ ret' = [op |-> "log_event", arg |-> e, raised |-> r.raised]
    /\ inserted' = IF cleared \/ ~IsSecurityEvent(e) THEN inserted
                   ELSE Append(inserted, e)
    /\ ncalls' = ncalls + 1
    /\ serial' = events'
    /\ UNCHANGED <<max_events, cleared>>
    /\ UNCHANGED lifeVars
    /\ UNCHANGED concVars

ClearEvents(th) ==
    /\ ncalls < MaxCalls
    /\ LET r == clear_events(events, th)
       IN  /\ events' = r.events
           /\ ret' = [op |-> "clear_events", arg |-> th, value |-> r.value]
    /\ cleared' = TRUE
    /\ ncalls' = ncalls + 1
    /\ serial' = events'
    /\ UNCHANGED <<max_events, inserted>>
    /\ UNCHANGED lifeVars
    /\ UNCHANGED concVars

GetEvents(f) ==
    /\ ret' = [op |-> "get_events", arg |-> f, value |-> get_events(events, f)]
    /\ UNCHANGED storeVars
    /\ UNCHANGED lifeVars
    /\ UNCHANGED concVars

GetStatus ==
    /\ LET r == get_status(Len(events), calculate_threat_summary(events),
                           max_events, monitoring)
       IN  ret' = [op |-> "get_status"] @@ r
    /\ UNCHANGED storeVars
    /\ UNCHANGED lifeVars
    /\ UNCHANGED concVars

GetCriticalEvents ==
    /\ ret' = [op |-> "get_critical_events", value |-> get_critical_events(events)]
    /\ UNCHANGED storeVars
    /\ UNCHANGED lifeVars
    /\ UNCHANGED concVars

GetEventSummary ==
    /\ ret' = [op |-> "get_event_summary", value |-> get_event_summary(events)]
    /\ UNCHANGED storeVars
    /\ UNCHANGED lifeVars
    /\ UNCHANGED concVars

Next ==
    \/ \E e \in EventPool \cup NonEventPool : LogEvent(e)
    \/ \E th \in ClearPool : ClearEvents(th)
    \/ \E f \in FilterPool : GetEvents(f)
    \/ GetStatus
    \/ GetCriticalEvents
    \/ GetEventSummary

Spec == Init /\ [][Next]_vars

\* ------------------------------------------------------------------ ConcSpec: threads
\* The arguments the concurrent callers use.
ConcEventPool  == {e \in EventPool : e.threat_level \in {"HIGH", "LOW"}}
ConcClearPool  == {None, Some("LOW")}
ConcFilterPool == {NoFilter, [NoFilter EXCEPT !.threat_level = Some("HIGH")]}

WriteOps == {"log_event", "clear_events"}
ReadOps  == {"get_events", "get_critical_events", "get_event_summary", "get_status"}

\* `with self._lock:` is entered only while no thread holds the lock
CanAcquireAlways(l) == TRUE
CanAcquire(l) == l = NoThread

\* A list a thread holds is either an object of its own, with its items, or
\* the monitor's live list self.events.
OwnList(items) == [live |-> FALSE, items |-> items]
LiveList == [live |-> TRUE]
Deref(h) == IF h.live THEN events ELSE h.items

\* self.events.copy(): a new list with the items self.events has now
list_alias(s) == LiveList
list_copy(s) == OwnList(s)

Goto(t, p)  == pc' = [pc EXCEPT ![t] = p]
Local(t, r) == loc' = [loc EXCEPT ![t] = r]

WriterHoldsLock == lock # NoThread /\ loc[lock].op \in WriteOps

\* history: a read call begins; its window opens with the store as it stands,
\* unless a write is in progress
OpenWindow(t) ==
    window' = [window EXCEPT ![t] = IF WriterHoldsLock THEN {} ELSE {events}]

\* history: a write call leaves the lock; the store it leaves joins the window
\* of every thread that is inside a read call
Commit(new) ==
    window' = [t \in Threads |->
                 IF pc[t] # "idle" /\ loc[t].op \in ReadOps
                 THEN window[t] \cup {new} ELSE window[t]]

Lock(t, from, to) ==
    /\ pc[t] = from
    /\ CanAcquire(lock)
    /\ lock' = t
    /\ Goto(t, to)

\* ---- log_event(event), lines 147-156
CallLogEvent(t, e) ==
    /\ pc[t] = "idle"
    /\ ncalls < MaxCalls
    /\ ncalls' = ncalls + 1
    /\ Goto(t, "log_lock")
    /\ Local(t, [op |-> "log_event", arg |-> e])
    /\ window' = [window EXCEPT ![t] = {}]
    /\ UNCHANGED <<max_events, events, inserted, cleared, serial, lock, ret>>
    /\ UNCHANGED lifeVars

LogLock(t) ==
    /\ Lock(t, "log_lock", "log_cap")
    /\ UNCHANGED <<loc, window, ret>>
    /\ UNCHANGED storeVars
    /\ UNCHANGED lifeVars

\* if len(self.events) >= self.max_events:
LogCap(t) ==
    /\ pc[t] = "log_cap"
    /\ Goto(t, IF AtCapacity(events, max_events) THEN "log_pop" ELSE "log_append")
    /\ UNCHANGED <<loc, lock, window, ret>>
    /\ UNCHANGED storeVars
    /\ UNCHANGED lifeVars

\* self.events.pop(0); on an empty list IndexError leaves the with block
LogPop(t) ==
    /\ pc[t] = "log_pop"
    /\ IF events = <<>>
       THEN /\ lock' = NoThread
            /\ Goto(t, "idle")
            /\ Local(t, [loc[t] EXCEPT !.raised = "IndexError"])
            /\ serial' = log_event(serial, max_events, loc[t].arg).events
            /\ Commit(events)
            /\ UNCHANGED events
       ELSE /\ events' = Pop0(events)
            /\ Goto(t, "log_append")
            /\ UNCHANGED <<lock, loc, serial, window>>
    /\ UNCHANGED <<max_events, inserted, cleared, ncalls, ret>>
    /\ UNCHANGED lifeVars

\* self.events.append(event)
LogAppend(t) ==
    /\ pc[t] = "log_append"
    /\ events' = Append(events, loc[t].arg)
    /\ Goto(t, "log_unlock")
    /\ UNCHANGED <<max_events, inserted, cleared, ncalls, serial, lock, loc, window, ret>>
    /\ UNCHANGED lifeVars

LogUnlock(t) ==
    /\ pc[t] = "log_unlock"
    /\ lock' = NoThread
    /\ Goto(t, "idle")
    /\ Local(t, [op |-> "log_event", arg |-> loc[t].arg, raised |-> "none"])
    /\ serial' = log_event(serial, max_events, loc[t].arg).events
    /\ Commit(events)
    /\ UNCHANGED <<max_events, events, inserted, cleared, ncalls, ret>>
    /\ UNCHANGED lifeVars

\* ---- clear_events(threat_level), lines 314-327
CallClearEvents(t, th) ==
    /\ pc[t] = "idle"
    /\ ncalls < MaxCalls
    /\ ncalls' = ncalls + 1
    /\ Goto(t, "clr_lock")
    /\ Local(t, [op |-> "clear_events", arg |-> th])
    /\ window' = [window EXCEPT ![t] = {}]
    /\ UNCHANGED <<max_events, events, inserted, cleared, serial, lock, ret>>
    /\ UNCHANGED lifeVars

ClrLock(t) ==
    /\ Lock(t, "clr_lock", "clr_len")
    /\ UNCHANGED <<loc, window, ret>>
    /\ UNCHANGED storeVars
    /\ UNCHANGED lifeVars

\* cleared_count = len(self.events)  /  initial_count = len(self.events)
ClrLen(t) ==
    /\ pc[t] = "clr_len"
    /\ Local(t, [op |-> "clear_events", arg |-> loc[t].arg, count |-> Len(events)])
    /\ Goto(t, "clr_do")
    /\ UNCHANGED <<lock, window, ret>>
    /\ UNCHANGED storeVars
    /\ UNCHANGED lifeVars

\* self.events.clear()  /  self.events = [...]; cleared_count = initial_count - len(self.events)
ClrDo(t) ==
    /\ pc[t] = "clr_do"
    /\ LET th == loc[t].arg
           kept == IF th.some
                   THEN SelectSeq(events, LAMBDA e : Gt(e.threat_level, th.val))
                   ELSE <<>>
       IN  /\ events' = kept
           /\ Local(t, [op |-> "clear_events", arg |-> th,
                        count |-> IF th.some THEN loc[t].count - Len(kept)
                                  ELSE loc[t].count])
    /\ Goto(t, "clr_unlock")
    /\ UNCHANGED <<max_events, inserted, cleared, ncalls, serial, lock, window, ret>>
    /\ UNCHANGED lifeVars

\* return cleared_count
ClrUnlock(t) ==
    /\ pc[t] = "clr_unlock"
    /\ lock' = NoThread
    /\ Goto(t, "idle")
    /\ Local(t, [op |-> "clear_events", arg |-> loc[t].arg, value |-> loc[t].count])
    /\ serial' = clear_events(serial, loc[t].arg).events
    /\ Commit(events)
    /\ UNCHANGED <<max_events, events, inserted, cleared, ncalls, ret>>
    /\ UNCHANGED lifeVars

\* ---- the read calls
CallRead(t, op, arg) ==
    /\ pc[t] = "idle"
    /\ Goto(t, "rd_lock")
    /\ Local(t, [op |-> op, arg |-> arg])
    /\ OpenWindow(t)
    /\ UNCHANGED <<lock, ret>>
    /\ UNCHANGED storeVars
    /\ UNCHANGED lifeVars

RdLock(t) ==
    /\ Lock(t, "rd_lock", "rd_body")
    /\ UNCHANGED <<loc, window, ret>>
    /\ UNCHANGED storeVars
    /\ UNCHANGED lifeVars

\* The first statement inside the with block:
\*   get_events / get_event_summary   the copy of self.events
\*   get_critical_events              the list comprehension over self.events
\*   get_status                       event_count = len(self.events)
RdBody(t) ==
    /\ pc[t] = "rd_body"
    /\ LET op == loc[t].op
       IN  /\ Local(t, [op |-> op, arg |-> loc[t].arg,
                        tmp |-> CASE op = "get_critical_events" ->
                                         OwnList(get_critical_events(events))
                                  [] op = "get_status" -> Len(events)
                                  [] OTHER -> list_copy(events)])
           /\ Goto(t, IF op = "get_status" THEN "rd_summary" ELSE "rd_unlock")
    /\ UNCHANGED <<lock, window, ret>>
    /\ UNCHANGED storeVars
    /\ UNCHANGED lifeVars

\* get_status: threat_summary = self._calculate_threat_summary()
RdSummary(t) ==
    /\ pc[t] = "rd_summary"
    /\ Local(t, [op |-> loc[t].op, arg |-> loc[t].arg,
                 tmp |-> [total_events |-> loc[t].tmp,
                          threat_summary |-> calculate_threat_summary(events)]])
    /\ Goto(t, "rd_unlock")
    /\ UNCHANGED <<lock, window, ret>>
    /\ UNCHANGED storeVars
    /\ UNCHANGED lifeVars

RdUnlock(t) ==
    /\ pc[t] = "rd_unlock"
    /\ lock' = NoThread
    /\ Goto(t, "rd_return")
    /\ UNCHANGED <<loc, window, ret>>
    /\ UNCHANGED storeVars
    /\ UNCHANGED lifeVars

\* The statements after the with block, up to the return. get_events with
\* no filter returns the copy itself; a filter pass builds a new list.
RdReturn(t) ==
    /\ pc[t] = "rd_return"
    /\ LET op == loc[t].op
           tmp == loc[t].tmp
       IN  Local(t, [op |-> op, arg |-> loc[t].arg,
                     value |-> CASE op = "get_events" ->
                                      IF loc[t].arg = NoFilter THEN tmp
                                      ELSE OwnList(get_events(Deref(tmp), loc[t].arg))
                                 [] op = "get_event_summary" ->
                                      get_event_summary(Deref(tmp))
                                 [] OTHER -> tmp])
    /\ Goto(t, "idle")
    /\ UNCHANGED <<lock, window, ret>>
    /\ UNCHANGED storeVars
    /\ UNCHANGED lifeVars

ConcNext ==
    \E t \in Threads :
        \/ \E e \in ConcEventPool : CallLogEvent(t, e)
        \/ LogLock(t) \/ LogCap(t) \/ LogPop(t) \/ LogAppend(t) \/ LogUnlock(t)
        \/ \E th \in ConcClearPool : CallClearEvents(t, th)
        \/ ClrLock(t) \/ ClrLen(t) \/ ClrDo(t) \/ ClrUnlock(t)
        \/ \E f \in ConcFilterPool : CallRead(t, "get_events", f)
        \/ \E op \in ReadOps \ {"get_events"} : CallRead(t, op, None)
        \/ RdLock(t) \/ RdBody(t) \/ RdSummary(t) \/ RdUnlock(t) \/ RdReturn(t)

ConcSpec == Init /\ [][ConcNext]_vars

\* ------------------------------------------------------------------ LifeSpec: lifecycle
\* Thread.is_alive(): started and its run() has not returned
Alive(i) == task[i] \notin {"unborn", "done"}

LiveTasks == {i \in TaskIds : Alive(i)}

Unborn == {i \in TaskIds : task[i] = "unborn"}

Return(r) == caller' = "idle" /\ ret' = r

\* ---- start_monitoring, lines 164-176
\* if self._monitoring: warning; return
StartNoop ==
    /\ caller = "idle"
    /\ monitoring
    /\ ret' = [op |-> "start_monitoring", warned |-> TRUE]
    /\ UNCHANGED <<monitoring, stop_event, monitor_thread, task, caller>>
    /\ UNCHANGED logged
    /\ UNCHANGED storeVars
    /\ UNCHANGED concVars

\* self._monitoring = True
StartBegin ==
    /\ caller = "idle"
    /\ ~monitoring
    /\ Unborn # {}
    /\ monitoring' = TRUE
    /\ caller' = "start_clear"
    /\ UNCHANGED <<stop_event, monitor_thread, task, ret>>
    /\ UNCHANGED logged
    /\ UNCHANGED storeVars
    /\ UNCHANGED concVars

\* self._stop_event.clear()
StartClearKeepsSignal ==
    /\ caller = "start_clear"
    /\ caller' = "start_spawn"
    /\ UNCHANGED <<monitoring, stop_event, monitor_thread, task, ret>>
    /\ UNCHANGED logged
    /\ UNCHANGED storeVars
    /\ UNCHANGED concVars
StartClear ==
    /\ caller = "start_clear"
    /\ stop_event' = FALSE
    /\ caller' = "start_spawn"
    /\ UNCHANGED <<monitoring, monitor_thread, task, ret>>
    /\ UNCHANGED logged
    /\ UNCHANGED storeVars
    /\ UNCHANGED concVars

\* self._monitor_thread = Thread(target=self._monitor_loop, ...); .start()
StartSpawn ==
    /\ caller = "start_spawn"
    /\ LET i == CHOOSE j \in Unborn : \A k \in Unborn : j <= k
       IN  /\ monitor_thread' = i
           /\ task' = [task EXCEPT ![i] = "loop_monitoring"]
    /\ Return([op |-> "start_monitoring", warned |-> FALSE])
    /\ UNCHANGED <<monitoring, stop_event>>
    /\ UNCHANGED logged
    /\ UNCHANGED storeVars
    /\ UNCHANGED concVars

\* ---- stop_monitoring, lines 184-194
\* if not self._monitoring: warning; return
StopNoop ==
    /\ caller = "idle"
    /\ ~monitoring
    /\ ret' = [op |-> "stop_monitoring", warned |-> TRUE]
    /\ UNCHANGED <<monitoring, stop_event, monitor_thread, task, caller>>
    /\ UNCHANGED logged
    /\ UNCHANGED storeVars
    /\ UNCHANGED concVars

\* self._monitoring = False
StopBegin ==
    /\ caller = "idle"
    /\ monitoring
    /\ monitoring' = FALSE
    /\ caller' = "stop_set"
    /\ UNCHANGED <<stop_event, monitor_thread, task, ret>>
    /\ UNCHANGED logged
    /\ UNCHANGED storeVars
    /\ UNCHANGED concVars

\* self._stop_event.set()
StopSet ==
    /\ caller = "stop_set"
    /\ stop_event' = TRUE
    /\ caller' = "stop_alive"
    /\ UNCHANGED <<monitoring, monitor_thread, task, ret>>
    /\ UNCHANGED logged
    /\ UNCHANGED storeVars
    /\ UNCHANGED concVars

\* if self._monitor_thread and self._monitor_thread.is_alive():
StopAlive ==
    /\ caller = "stop_alive"
    /\ IF monitor_thread # 0 /\ Alive(monitor_thread)
       THEN caller' = "stop_join" /\ UNCHANGED ret
       ELSE Return([op |-> "stop_monitoring", warned |-> FALSE, joined |-> TRUE])
    /\ UNCHANGED <<monitoring, stop_event, monitor_thread, task>>
    /\ UNCHANGED logged
    /\ UNCHANGED storeVars
    /\ UNCHANGED concVars

\* self._monitor_thread.join(timeout=5): returns when the thread has ended,
\* or when the timeout has elapsed, whichever comes first
StopJoin ==
    /\ caller = "stop_join"
    /\ Return([op |-> "stop_monitoring", warned |-> FALSE,
               joined |-> ~Alive(monitor_thread)])
    /\ UNCHANGED <<monitoring, stop_event, monitor_thread, task>>
    /\ UNCHANGED logged
    /\ UNCHANGED storeVars
    /\ UNCHANGED concVars

\* ---- _monitor_loop, lines 202-211
TaskGoto(i, p) ==
    /\ task' = [task EXCEPT ![i] = p]
    /\ UNCHANGED <<monitoring, stop_event, monitor_thread, caller, ret>>
    /\ UNCHANGED storeVars
    /\ UNCHANGED concVars

TaskRuns(i, p) == TaskGoto(i, p) /\ UNCHANGED logged

\* while self._monitoring ...
LoopMonitoring(i) ==
    /\ task[i] = "loop_monitoring"
    /\ TaskRuns(i, IF monitoring THEN "loop_is_set" ELSE "done")

\* ... and not self._stop_event.is_set():
LoopIsSet(i) ==
    /\ task[i] = "loop_is_set"
    /\ TaskRuns(i, IF ~stop_event THEN "wait" ELSE "done")

\* self._stop_event.wait(timeout=5): returns once the event is set, or when
\* the timeout has elapsed
WaitNeverReturns(i) ==
    /\ task[i] = "wait"
    /\ UNCHANGED vars
Wait(i) ==
    /\ task[i] = "wait"
    /\ TaskRuns(i, "loop_monitoring")

\* An Exception is raised by a statement inside the try block: control goes
\* to the except clause.
Raise(i) ==
    /\ task[i] = "wait"
    /\ TaskRuns(i, "except")

\* except Exception as e: logger.error(...); then back to the while test
ExceptPropagates(i) ==
    /\ task[i] = "except"
    /\ TaskRuns(i, "done")
Except(i) ==
    /\ task[i] = "except"
    /\ logged' = TRUE
    /\ TaskGoto(i, "loop_monitoring")

\* The steps a scheduled loop thread takes by itself.
TaskStep(i) == LoopMonitoring(i) \/ LoopIsSet(i) \/ Wait(i) \/ Except(i)

LifeNext ==
    \/ StartNoop \/ StartBegin \/ StartClear \/ StartSpawn
    \/ StopNoop \/ StopBegin \/ StopSet \/ StopAlive \/ StopJoin
    \/ \E i \in TaskIds : LoopMonitoring(i) \/ LoopIsSet(i) \/ Wait(i)
    \/ \E i \in TaskIds : Raise(i) \/ Except(i)

LifeSpec == Init /\ [][LifeNext]_vars

\* Every thread that runs _monitor_loop keeps being scheduled.
LiveSpec == Init /\ [][LifeNext]_vars /\ \A i \in TaskIds : WF_vars(TaskStep(i))

\* ------------------------------------------------------------------ PureSpec: value types
\* The strings a caller passes for a str field: empty, a letter, a blank.
StrPool == {<<>>, <<"a">>, <<" ">>}

\* The arguments of a SecurityEvent(...) call.
NewArgs ==
    [op : {"args"}, event_id : StrPool, event_type : StrPool,
     source : StrPool, description : StrPool]

\* The operands of a comparison of two threat levels.
CompareArgs == [op : {"operands"}, a : ThreatLevel, b : ThreatLevel]

PureInit ==
    /\ ret \in NewArgs \cup CompareArgs
    /\ max_events = 0
    /\ events = <<>>
    /\ monitoring = FALSE
    /\ stop_event = FALSE
    /\ monitor_thread = 0
    /\ lock = NoThread
    /\ pc = [t \in Threads |-> "idle"]
    /\ loc = [t \in Threads |-> [op |-> "init"]]
    /\ task = [i \in TaskIds |-> "unborn"]
    /\ caller = "idle"
    /\ logged = FALSE
    /\ inserted = <<>>
    /\ cleared = FALSE
    /\ ncalls = 0
    /\ serial = <<>>
    /\ window = [t \in Threads |-> {}]

\* SecurityEvent(event_id, timestamp, threat_level, event_type, source,
\* description): the generated __init__ assigns the fields, then __post_init__
\* runs; the caller gets the object only if it did not raise.
NewSecurityEvent ==
    /\ ret.op = "args"
    /\ LET e == [SecurityEvent(ret.event_id, 1, "INFO", ret.event_type, ret.source)
                     EXCEPT !.description = ret.description]
           r == post_init(e)
       IN  ret' = IF r.raised = "none"
                  THEN [op |-> "SecurityEvent", args |-> ret, raised |-> "none", value |-> e]
                  ELSE [op |-> "SecurityEvent", args |-> ret, raised |-> r.raised,
                        message |-> r.message]
    /\ UNCHANGED storeVars
    /\ UNCHANGED lifeVars
    /\ UNCHANGED concVars

\* a < b, a <= b, a > b, a >= b and a == b on two ThreatLevel members
Compare ==
    /\ ret.op = "operands"
    /\ ret' = [op |-> "compare", a |-> ret.a, b |-> ret.b,
               lt |-> Lt(ret.a, ret.b), le |-> Le(ret.a, ret.b),
               gt |-> Gt(ret.a, ret.b), ge |-> Ge(ret.a, ret.b),
               eq |-> (ret.a = ret.b)]
    /\ UNCHANGED storeVars
    /\ UNCHANGED lifeVars
    /\ UNCHANGED concVars

PureNext == NewSecurityEvent \/ Compare

PureSpec == PureInit /\ [][PureNext]_vars

\* ================================================================== properties
Min(a, b) == IF a <= b THEN a ELSE b

\* The last n elements of s.
LastN(s, n) == SubSeq(s, Len(s) - n + 1, Len(s))

\* Two characters are the same letter, whatever their case.
SameLetter(c, d) ==
    c = d \/ {c, d} \in {{"a", "A"}, {"b", "B"}, {"x", "X"}, {"y", "Y"}}

EqualIgnoringCase(a, b) ==
    Len(a) = Len(b) /\ \A i \in 1..Len(a) : SameLetter(a[i], b[i])

\* The event satisfies every filter that is given.
Matches(e, f) ==
    /\ f.threat_level.some =>
           severity_order[e.threat_level] >= severity_order[f.threat_level.val]
    /\ f.event_type.some => EqualIgnoringCase(e.event_type, f.event_type.val)
    /\ f.source.some => EqualIgnoringCase(e.source, f.source.val)
    /\ f.start_time.some => f.start_time.val <= e.timestamp
    /\ f.end_time.some => e.timestamp <= f.end_time.val

\* r is s with some elements left out: the elements kept are those that
\* satisfy Keep, in the order they have in s.
IsSelection(r, s, Keep(_)) ==
    \E idx \in [1..Len(r) -> 1..Len(s)] :
        /\ \A i \in 1..Len(r) : r[i] = s[idx[i]]
        /\ \A i \in 1..Len(r) : \A j \in 1..Len(r) : i < j => idx[i] < idx[j]
        /\ \A k \in 1..Len(s) : Keep(s[k]) <=> (\E i \in 1..Len(r) : idx[i] = k)

\* ------------------------------------------------------------------ C1
\* C1: after every log_event and clear_events call the number of stored
\* events is at most max_events, for every max_events >= 0.
CapacityInvariant == Len(events) <= max_events

\* An insert into a full store has happened and the store is full again.
CapacityWitness ==
    /\ ret.op = "log_event"
    /\ ret.raised = "none"
    /\ ~cleared
    /\ max_events >= 1
    /\ Len(inserted) = max_events + 1
    /\ Len(events) = max_events

\* ------------------------------------------------------------------ C2
\* While no clear_events call was made, the store is the last min(k, N) of the
\* k events logged, in the order they were logged.
HoldsLastInserted ==
    (max_events >= 1 /\ ~cleared) =>
        events = LastN(inserted, Min(Len(inserted), max_events))

\* A log_event call on a store at capacity removes the oldest event only: the
\* others move up one place and the new event is last.
EvictsOldestOnly ==
    \A e \in EventPool :
        (/\ ret'.op = "log_event"
         /\ LogEvent(e)
         /\ max_events >= 1
         /\ Len(events) >= max_events) =>
            /\ Len(events') = Len(events)
            /\ \A i \in 1..(Len(events) - 1) : events'[i] = events[i + 1]
            /\ events'[Len(events')] = e

\* C2: with max_events = N >= 1, after k log_event calls and no clear_events
\* the store holds exactly the last min(k, N) logged events in insertion
\* order, and every insert at capacity evicts exactly one event, the oldest.
FifoEviction == []HoldsLastInserted /\ [][EvictsOldestOnly]_vars

\* N + 1 events were logged into a store of capacity N = 2, no clear.
FifoWitness ==
    /\ max_events = 2
    /\ ~cleared
    /\ Len(inserted) = 3
    /\ inserted[1] # inserted[2]
    /\ events = <<inserted[2], inserted[3]>>

\* ------------------------------------------------------------------ C3
\* C3: get_events returns exactly the stored events that satisfy all the
\* given filters (severity at least the given one, event_type and source equal
\* ignoring case, start_time <= timestamp <= end_time), in insertion order;
\* with no filter it returns all stored events.
GetEventsFilters ==
    ret.op = "get_events" =>
        /\ IsSelection(ret.value, events, LAMBDA e : Matches(e, ret.arg))
        /\ ret.arg = NoFilter => ret.value = events

\* All five filters were given; they kept one event and dropped another.
GetEventsWitness ==
    /\ ret.op = "get_events"
    /\ ret.arg.threat_level.some /\ ret.arg.event_type.some /\ ret.arg.source.some
    /\ ret.arg.start_time.some /\ ret.arg.end_time.some
    /\ Len(ret.value) = 1
    /\ Len(events) = 2

\* ------------------------------------------------------------------ C4
ClearPostcondition(th) ==
    /\ IF th.some
       THEN IsSelection(events', events,
                LAMBDA e : severity_order[e.threat_level] > severity_order[th.val])
       ELSE events' = <<>>
    /\ ret'.value = Len(events) - Len(events')

\* C4: clear_events(threshold) removes exactly the events of severity at most
\* the threshold, keeps the more severe ones in their order and returns the
\* number removed; clear_events() empties the store and returns its old size.
ClearEventsSemantics ==
    [][\A th \in ClearPool :
          (ret'.op = "clear_events" /\ ClearEvents(th)) => ClearPostcondition(th)]_vars

\* A clear with a threshold removed one event and kept another.
ClearEventsWitness ==
    /\ ret.op = "clear_events"
    /\ ret.arg.some
    /\ ret.value = 1
    /\ Len(events) = 1

\* ------------------------------------------------------------------ C10
\* C10: log_event with a valid event returns without raising, for every
\* max_events >= 0 (max_events = 0 included) and every store state.
LogEventNeverRaises ==
    (ret.op = "log_event" /\ ret.arg \in EventPool) => ret.raised = "none"

\* ------------------------------------------------------------------ C11
\* C11: log_event called with a value that is not a SecurityEvent ends with
\* TypeError and leaves the event list exactly as it was.
RejectsNonEvents ==
    [][\A x \in NonEventPool :
          (ret'.op = "log_event" /\ LogEvent(x)) =>
              (ret'.raised = "TypeError" /\ events' = events)]_vars

\* A non-event was rejected while the store held events.
RejectsNonEventsWitness ==
    /\ ret.op = "log_event"
    /\ ret.arg \in NonEventPool
    /\ ret.raised = "TypeError"
    /\ events # <<>>

\* ------------------------------------------------------------------ C5
\* The statements of log_event and clear_events inside the with block.
WriteSection ==
    {"log_cap", "log_pop", "log_append", "log_unlock", "clr_len", "clr_do", "clr_unlock"}

NoWriteInProgress == \A t \in Threads : pc[t] \notin WriteSection

\* C5: with threads calling log_event and clear_events concurrently, whenever
\* no write is in progress the store equals the result of applying the
\* finished calls one at a time, in the order they left the lock (so no event
\* is lost or duplicated except by eviction or a clear), and the store never
\* holds more than max_events events, in intermediate states too.
AtomicWrites ==
    /\ NoWriteInProgress => events = serial
    /\ Len(events) <= max_events

\* One thread has popped the oldest event and not yet appended its own, while
\* another thread waits for the lock to log an event.
AtomicWritesWitness ==
    \E t \in Threads : \E u \in Threads \ {t} :
        /\ pc[t] = "log_append"
        /\ pc[u] = "log_lock"
        /\ max_events >= 1
        /\ Len(events) = max_events - 1
        /\ Len(serial) = max_events

\* ------------------------------------------------------------------ C6
\* What a read call returns when the store is s for the whole call.
ResultOn(op, arg, s) ==
    CASE op = "get_events" -> get_events(s, arg)
      [] op = "get_critical_events" -> get_critical_events(s)
      [] op = "get_event_summary" -> get_event_summary(s)
      [] op = "get_status" -> [total_events |-> Len(s),
                               threat_summary |-> calculate_threat_summary(s)]

\* The thread's last call was a read and has returned.
Returned(t) == pc[t] = "idle" /\ loc[t].op \in ReadOps

\* What the caller sees in the value the read returned.
Seen(t) ==
    IF loc[t].op \in {"get_events", "get_critical_events"}
    THEN Deref(loc[t].value)
    ELSE loc[t].value

\* C6: whatever a read call has returned is, and stays while writes go on,
\* the result computed from the store as it stood at one instant between the
\* call's start and its return, at which no write was half-applied.
SnapshotReads ==
    \A t \in Threads :
        Returned(t) =>
            \E s \in window[t] : Seen(t) = ResultOn(loc[t].op, loc[t].arg, s)

\* A read returned while writes went on: the store changed during the call
\* and is now different from what the read returned.
SnapshotReadsWitness ==
    \E t \in Threads :
        /\ Returned(t)
        /\ loc[t].op = "get_status"
        /\ Cardinality(window[t]) >= 2
        /\ Seen(t) # ResultOn(loc[t].op, loc[t].arg, events)
        /\ \E u \in Threads \ {t} : pc[u] \in WriteSection

\* ------------------------------------------------------------------ C7
\* C7: at most one thread running _monitor_loop is live, whatever sequence of
\* start_monitoring and stop_monitoring calls was made.
AtMostOneTask == Cardinality(LiveTasks) <= 1

\* ------------------------------------------------------------------ C8
lifecycleState == <<monitoring, stop_event, monitor_thread, task, events>>

\* C8: start_monitoring on a running monitor and stop_monitoring on a monitor
\* that is not running leave the running flag, the stop event, the thread
\* handle, the tasks and the events unchanged, and after the redundant
\* start_monitoring exactly one background task is running.
RedundantCallsAreNoOps ==
    [][/\ StartNoop => (UNCHANGED lifecycleState /\ Cardinality(LiveTasks') = 1)
       /\ StopNoop => UNCHANGED lifecycleState]_vars

\* ------------------------------------------------------------------ C9
\* C9: stop_monitoring on a running monitor leaves _monitoring False and the
\* stop event set, and every live loop thread then ends, unless
\* start_monitoring sets _monitoring again first.
StopLeadsToExit ==
    /\ [][StopSet => (~monitoring' /\ stop_event')]_vars
    /\ \A i \in TaskIds :
          (Alive(i) /\ ~monitoring /\ stop_event) ~> (~Alive(i) \/ monitoring)

\* stop_monitoring has returned from a running monitor whose join timed out,
\* and the loop thread has ended afterwards.
StopLeadsToExitWitness ==
    /\ caller = "idle"
    /\ ret.op = "stop_monitoring" /\ ~ret.warned /\ ~ret.joined
    /\ ~monitoring /\ stop_event
    /\ monitor_thread # 0 /\ task[monitor_thread] = "done"

\* ------------------------------------------------------------------ C12
\* The sum of the values of a mapping with a finite domain.
RECURSIVE SumOf(_)
SumOf(f) ==
    IF DOMAIN f = {} THEN 0
    ELSE LET k == CHOOSE x \in DOMAIN f : TRUE
         IN  f[k] + SumOf([x \in DOMAIN f \ {k} |-> f[x]])

\* m maps each value the attribute has among the stored events to the number
\* of stored events that have it.
CountsAttribute(m, attr) ==
    /\ DOMAIN m = {events[i][attr] : i \in 1..Len(events)}
    /\ \A k \in DOMAIN m :
           m[k] = Cardinality({i \in 1..Len(events) : events[i][attr] = k})
    /\ SumOf(m) = Len(events)

\* d is the structured form of the event e.
DescribesEvent(d, e) ==
    /\ d.event_id = e.event_id
    /\ d.threat_level = e.threat_level
    /\ d.event_type = e.event_type
    /\ d.source = e.source
    /\ d.description = e.description
    /\ d.timestamp = <<"T", e.timestamp>>

\* C12: get_event_summary returns the number of stored events, the counts per
\* event_type and per source (each summing to the total), the number of
\* CRITICAL or HIGH events and the most recently inserted event; on an empty
\* store 0, two empty maps, 0 and no latest event.
SummaryResult ==
    ret.op = "get_event_summary" =>
        LET v == ret.value
        IN  /\ v.total_events = Len(events)
            /\ CountsAttribute(v.events_by_type, "event_type")
            /\ CountsAttribute(v.events_by_source, "source")
            /\ v.critical_events =
                   Cardinality({i \in 1..Len(events) :
                                   severity_order[events[i].threat_level] >= 4})
            /\ IF events = <<>>
               THEN /\ ~v.latest_event.some
                    /\ DOMAIN v.events_by_type = {}
                    /\ DOMAIN v.events_by_source = {}
               ELSE /\ v.latest_event.some
                    /\ DescribesEvent(v.latest_event.val, events[Len(events)])

\* A summary of two different events, one of them critical.
SummaryWitness ==
    /\ ret.op = "get_event_summary"
    /\ Len(events) = 2
    /\ events[1] # events[2]
    /\ ret.value.critical_events = 1
    /\ Cardinality(DOMAIN ret.value.events_by_source) = 2

\* ------------------------------------------------------------------ C13
\* C13: the threat_summary of every returned get_status has an entry for each
\* of the five levels, each entry is the number of events of that level in
\* the store as it stood at one instant of the call, and the entries sum to
\* the total_events of the same result, with log_event and clear_events
\* running in other threads.
StatusSummaryConsistent ==
    \A t \in Threads :
        (Returned(t) /\ loc[t].op = "get_status") =>
            LET v == loc[t].value
            IN  /\ DOMAIN v.threat_summary = ThreatLevel
                /\ Cardinality(ThreatLevel) = 5
                /\ SumOf(v.threat_summary) = v.total_events
                /\ \E s \in window[t] :
                       /\ v.total_events = Len(s)
                       /\ \A l \in ThreatLevel :
                              v.threat_summary[l] =
                                  Cardinality({i \in 1..Len(s) : s[i].threat_level = l})

\* get_status returned a non-empty summary while another thread is in the
\* middle of a write and the store has changed since.
StatusSummaryWitness ==
    \E t \in Threads :
        /\ Returned(t)
        /\ loc[t].op = "get_status"
        /\ loc[t].value.total_events >= 1
        /\ loc[t].value.threat_summary["INFO"] = 0
        /\ loc[t].value.total_events # Len(events)
        /\ \E u \in Threads \ {t} : pc[u] \in WriteSection

\* ------------------------------------------------------------------ C14
\* C14: capacity_usage_percent is total_events / max_capacity * 100 when
\* max_capacity > 0 and 0 when max_capacity = 0, and get_status never ends
\* with a division by zero.
CapacityUsage ==
    ret.op = "get_status" =>
        /\ ret.raised = "none"
        /\ LET p == ret.value.capacity_usage_percent
           IN  /\ p.den > 0
               /\ ret.value.max_capacity = max_events
               /\ ret.value.total_events = Len(events)
               /\ max_events > 0 => p.num * max_events = 100 * Len(events) * p.den
               /\ max_events = 0 => p.num = 0

\* get_status on a half-full store of capacity 2 returned 50 percent.
CapacityUsageWitness ==
    /\ ret.op = "get_status"
    /\ max_events = 2
    /\ Len(events) = 1
    /\ ret.value.capacity_usage_percent = [num |-> 50, den |-> 1]

\* ------------------------------------------------------------------ C15
\* C15: get_critical_events returns exactly the stored CRITICAL and HIGH
\* events in insertion order, the same list as get_events(threat_level=HIGH).
CriticalIsHighFilter ==
    ret.op = "get_critical_events" =>
        /\ IsSelection(ret.value, events,
               LAMBDA e : e.threat_level = "CRITICAL" \/ e.threat_level = "HIGH")
        /\ ret.value = get_events(events, [NoFilter EXCEPT !.threat_level = Some("HIGH")])

\* The call kept a HIGH event and dropped a less severe one.
CriticalWitness ==
    /\ ret.op = "get_critical_events"
    /\ Len(events) = 2
    /\ Len(ret.value) = 1
    /\ ret.value[1].threat_level = "HIGH"

\* ------------------------------------------------------------------ C16
\* The required fields in the order the contract checks them.
RequiredFields == <<"event_id", "event_type", "source", "description">>

\* C16: constructing an event fails with ValueError exactly when one of
\* event_id, event_type, source, description is empty, the message names the
\* first empty one in that order, and with all four non-empty the event is
\* constructed with the fields given.
ValidationOrder ==
    ret.op = "SecurityEvent" =>
        LET empty == {i \in 1..4 : ret.args[RequiredFields[i]] = <<>>}
        IN  IF empty = {}
            THEN /\ ret.raised = "none"
                 /\ \A i \in 1..4 :
                        ret.value[RequiredFields[i]] = ret.args[RequiredFields[i]]
            ELSE /\ ret.raised = "ValueError"
                 /\ \E i \in empty :
                        /\ \A j \in empty : i <= j
                        /\ ret.message[1] = RequiredFields[i]

\* A construction with source and description both empty failed naming source.
ValidationOrderWitness ==
    /\ ret.op = "SecurityEvent"
    /\ ret.args.event_id # <<>>
    /\ ret.args.event_type # <<>>
    /\ ret.args.source = <<>>
    /\ ret.args.description = <<>>
    /\ ret.raised = "ValueError"
    /\ ret.message[1] = "source"

\* ------------------------------------------------------------------ C17
\* The rank table of the contract.
rank ==
    [l \in ThreatLevel |->
        CASE l = "CRITICAL" -> 5 [] l = "HIGH" -> 4 [] l = "MEDIUM" -> 3
          [] l = "LOW" -> 2 [] l = "INFO" -> 1]

\* The number of true values among three.
TrueCount(p, q, r) ==
    (IF p THEN 1 ELSE 0) + (IF q THEN 1 ELSE 0) + (IF r THEN 1 ELSE 0)

\* C17: for every two levels a, b the operators <, <=, >, >= give what the
\* comparison of rank(a) with rank(b) gives, exactly one of a < b, a = b,
\* a > b holds, and a >= b is true exactly when a <= b is false or a = b.
SeverityTotalOrder ==
    ret.op = "compare" =>
        /\ ret.lt = (rank[ret.a] < rank[ret.b])
        /\ ret.le = (rank[ret.a] <= rank[ret.b])
        /\ ret.gt = (rank[ret.a] > rank[ret.b])
        /\ ret.ge = (rank[ret.a] >= rank[ret.b])
        /\ TrueCount(ret.lt, ret.eq, ret.gt) = 1
        /\ ret.ge = (~ret.le \/ ret.eq)

\* HIGH was compared with MEDIUM and found greater.
SeverityTotalOrderWitness ==
    /\ ret.op = "compare"
    /\ ret.a = "HIGH"
    /\ ret.b = "MEDIUM"
    /\ ret.gt /\ ret.ge /\ ~ret.lt /\ ~ret.le

\* ------------------------------------------------------------------ C18
\* C18: whenever start_monitoring has returned and the monitor is running
\* (_monitoring is True and no start or stop call is in progress), the thread
\* _monitor_thread refers to is alive, after a first start and after a
\* restart alike.
RunningHasLiveTask ==
    (monitoring /\ caller = "idle") =>
        (monitor_thread # 0 /\ Alive(monitor_thread))

\* The monitor is running after a restart: the first loop thread has ended
\* and the second one is in its wait.
RunningHasLiveTaskWitness ==
    /\ monitoring /\ caller = "idle"
    /\ ret.op = "start_monitoring" /\ ~ret.warned
    /\ monitor_thread = 2
    /\ task[1] = "done"
    /\ task[2] = "wait"

\* ------------------------------------------------------------------ C20
\* C20: an exception raised inside one iteration of _monitor_loop changes
\* nothing the caller of start_monitoring / stop_monitoring sees and is
\* handled by going back to the loop test, and a loop thread ends only at a
\* moment when _monitoring is False or the stop event is set.
FaultIsolation ==
    [][\A i \in TaskIds :
          /\ (task[i] = "wait" /\ task'[i] = "except") =>
                 UNCHANGED <<caller, ret, monitoring, stop_event, monitor_thread>>
          /\ (task[i] = "except" /\ task'[i] # "except") =>
                 (/\ task'[i] = "loop_monitoring"
                  /\ logged'
                  /\ UNCHANGED <<caller, ret, monitoring, stop_event, monitor_thread>>)
          /\ (Alive(i) /\ task'[i] = "done") => (~monitoring \/ stop_event)]_vars

\* An error was logged and the monitor is still running, its loop thread
\* back in the wait.
FaultIsolationWitness ==
    /\ logged
    /\ monitoring /\ ~stop_event /\ caller = "idle"
    /\ monitor_thread # 0 /\ task[monitor_thread] = "wait"

\* ------------------------------------------------------------------ C19
\* C19: each count in events_by_type / events_by_source of the summary equals
\* the number of events get_events(event_type=t) / get_events(source=s)
\* returns on the same store.
SummaryAgreesWithFilter ==
    ret.op = "get_event_summary" =>
        /\ \A t \in DOMAIN ret.value.events_by_type :
               ret.value.events_by_type[t] =
                   Len(get_events(events, [NoFilter EXCEPT !.event_type = Some(t)]))
        /\ \A x \in DOMAIN ret.value.events_by_source :
               ret.value.events_by_source[x] =
                   Len(get_events(events, [NoFilter EXCEPT !.source = Some(x)]))

====
